---- MODULE Spec2Model ----
(***************************************************************************)
(* A model of fluxreader's measurement pipeline and store                  *)
(* (src/XGEN_flux_file_parsing.py, src/cells.py).                          *)
(*                                                                         *)
(* Numbers.  A Python value that is None, an int or a float is a record    *)
(* [t, v]: t is "none", "int", "float", "inf", "-inf" or "nan", and v is   *)
(* the value in thousandths (12.5 is v = 12500, the int 3 is v = 3000).    *)
(* Arithmetic is exact fixed point; only the square root and the quotients *)
(* are truncated to a thousandth.                                          *)
(*                                                                         *)
(* Text.  A field of a store file is a token [k, v, dot0]: k is "empty"    *)
(* (the empty string), "None" (the four letters), "num" (a numeric         *)
(* literal of value v), "inf", "-inf", "nan" or "ts" (a formatted          *)
(* timestamp); dot0 tells "3.0" from "3", the two ways Python writes an    *)
(* integral value.  A row is the sequence of its fields: no field the      *)
(* program writes contains the separator ", " and the last field is never  *)
(* empty, so strip() and split(', ') give the fields back as written.      *)
(*                                                                         *)
(* A dict is a sequence of <<key, value>> pairs in insertion order.        *)
(***************************************************************************)
EXTENDS Integers, Sequences, FiniteSets, TLC

VARIABLES
    readings,       \* get_readings_from_XGEN_file: the readings of one file
    paired,         \* outcome of subtract_background_simple(readings)
    vals,           \* the 24 samples of a line
    avg,            \* the line's reported average
    built,          \* outcome of create_reading_from_XGEN_line
    new_readings,   \* merge_readings / check_timestamp_conflicts: arguments
    old_readings,
    merged,         \* outcome of merge_readings and check_timestamp_conflicts
    files,          \* the store folder: channel name -> file or NoFile
    last            \* the last store call: its arguments and outcome

vars == <<readings, paired, vals, avg, built, new_readings, old_readings,
          merged, files, last>>

pairVars   == <<readings, paired>>
reduceVars == <<vals, avg, built>>
mergeVars  == <<new_readings, old_readings, merged>>
storeVars  == <<files, last>>

Scale == 10 * 100

----------------------------------------------------------------------------
(* Sequences and dicts *)

Range(s) == { s[i] : i \in 1..Len(s) }

RECURSIVE Concat(_)
Concat(ss) == IF ss = <<>> THEN <<>> ELSE Head(ss) \o Concat(Tail(ss))

Count(s, x) == Cardinality({ i \in 1..Len(s) : s[i] = x })

SameMultiset(s, t) ==
    /\ Len(s) = Len(t)
    /\ \A x \in Range(s) \cup Range(t) : Count(s, x) = Count(t, x)

RECURSIVE SortedSeq(_)
SortedSeq(s) ==
    IF s = <<>> THEN <<>>
    ELSE LET k == CHOOSE i \in 1..Len(s) : \A j \in 1..Len(s) : s[i] <= s[j]
         IN  <<s[k]>> \o SortedSeq(SubSeq(s, 1, k - 1) \o SubSeq(s, k + 1, Len(s)))

Keys(d) == [ i \in 1..Len(d) |-> d[i][1] ]

HasKey(d, k) == \E i \in 1..Len(d) : d[i][1] = k

Get(d, k) == d[CHOOSE i \in 1..Len(d) : d[i][1] = k][2]

\* d[k] = v: replaces the value in place, or appends a new key
Put(d, k, v) ==
    IF HasKey(d, k)
    THEN [ i \in 1..Len(d) |-> IF d[i][1] = k THEN <<k, v>> ELSE d[i] ]
    ELSE Append(d, <<k, v>>)

----------------------------------------------------------------------------
(* Python numbers *)

None     == [t |-> "none", v |-> 0]
PyInt(n)   == [t |-> "int", v |-> n * Scale]
PyFloat(m) == [t |-> "float", v |-> m]
PosInf   == [t |-> "inf", v |-> 0]
NegInf   == [t |-> "-inf", v |-> 0]
NaN      == [t |-> "nan", v |-> 0]

IsFinite(x) == x.t \in {"int", "float"}

\* bool(x): None and zero are false, everything else (inf, nan too) is true
Truthy(x) == x.t # "none" /\ ~(IsFinite(x) /\ x.v = 0)

\* x == y in Python: None only equals None, 3 == 3.0, nan equals nothing
PyEq(x, y) ==
    CASE x.t = "none" \/ y.t = "none" -> x.t = y.t
      [] x.t = "nan" \/ y.t = "nan"   -> FALSE
      [] IsFinite(x) /\ IsFinite(y)   -> x.v = y.v
      [] OTHER                        -> x.t = y.t

Abs(n) == IF n < 0 THEN -n ELSE n

\* truncated quotient of integers, b # 0
TruncDiv(a, b) ==
    IF (a < 0) = (b < 0) THEN Abs(a) \div Abs(b) ELSE -(Abs(a) \div Abs(b))

\* x - y on finite floats
FSub(x, y) ==
    IF IsFinite(x) /\ IsFinite(y) THEN PyFloat(x.v - y.v) ELSE NaN

\* x / y on numpy floats: division by zero gives inf or nan, never an error
FDiv(x, y) ==
    CASE ~IsFinite(x) \/ y.t = "nan" -> NaN
      [] y.t \in {"inf", "-inf"}     -> PyFloat(0)
      [] y.v = 0 /\ x.v > 0          -> PosInf
      [] y.v = 0 /\ x.v < 0          -> NegInf
      [] y.v = 0                     -> NaN
      [] OTHER                       -> PyFloat(TruncDiv(x.v * Scale, y.v))

RECURSIVE Newton(_, _)
Newton(n, x) ==
    LET y == (x + n \div x) \div 2
    IN  IF y >= x THEN x ELSE Newton(n, y)

Isqrt(n) == IF n = 0 THEN 0 ELSE Newton(n, n)

\* sqrt(x**2 + y**2) on floats
FHypot(x, y) ==
    IF IsFinite(x) /\ IsFinite(y)
    THEN PyFloat(Isqrt(x.v * x.v + y.v * y.v))
    ELSE IF x.t = "nan" \/ y.t = "nan" THEN NaN ELSE PosInf

----------------------------------------------------------------------------
(* The channel registry, src/cells.py *)

TempPar == "Temp (degC)"

AsCell(name, port) ==
    [name |-> name, port |-> port,
     pars |-> <<TempPar, "Valve (%)", "Crack Temp (degC)",
                "Time after opening (min)">>]

DualFilCell(name, port) ==
    [name |-> name, port |-> port, pars |-> <<TempPar, "Tip Ratio (%)">>]

SingleFilCell(name, port) ==
    [name |-> name, port |-> port, pars |-> <<TempPar>>]

SbCell(name, port) ==
    [name |-> name, port |-> port,
     pars |-> <<TempPar, "Valve (%)", "Crack Temp (degC)",
                "Cond Temp (degC)">>]

cells ==
    << AsCell("As", 1), DualFilCell("In1", 2), SingleFilCell("Al2", 6),
       DualFilCell("Ga2", 7), DualFilCell("Ga1", 8), DualFilCell("In2", 9),
       SingleFilCell("Al1", 10), SbCell("Sb", 11) >>

NoCell == [name |-> "", port |-> 0, pars |-> <<>>]

find_by_name(name) ==
    cells[CHOOSE i \in 1..Len(cells) :
            /\ cells[i].name = name
            /\ \A j \in 1..(i - 1) : cells[j].name # name]

find_by_port(port) ==
    cells[CHOOSE i \in 1..Len(cells) :
            /\ cells[i].port = port
            /\ \A j \in 1..(i - 1) : cells[j].port # port]

----------------------------------------------------------------------------
(* Readings.  One record shape for the three classes; a field a class does *)
(* not have is None (cell: the empty name, cell_par_vals: the empty dict). *)

BkgrndMIGReading(timestamp, MIG_current, signal_to_noise, reading_num) ==
    [kind |-> "bg", timestamp |-> timestamp, cell |-> "",
     cell_par_vals |-> <<>>, MIG_current |-> MIG_current,
     signal_to_noise |-> signal_to_noise, reading_num |-> reading_num,
     signal_to_background |-> None, num_meas_between |-> None]

FluxMIGReading(timestamp, cell, cell_par_vals, MIG_current, signal_to_noise, reading_num) ==
    [kind |-> "flux", timestamp |-> timestamp, cell |-> cell,
     cell_par_vals |-> cell_par_vals, MIG_current |-> MIG_current,
     signal_to_noise |-> signal_to_noise, reading_num |-> reading_num,
     signal_to_background |-> None, num_meas_between |-> None]

CorrMIGReading(timestamp, cell, cell_par_vals, MIG_current, signal_to_noise, signal_to_background, num_meas_between) ==
    [kind |-> "corr", timestamp |-> timestamp, cell |-> cell,
     cell_par_vals |-> cell_par_vals, MIG_current |-> MIG_current,
     signal_to_noise |-> signal_to_noise, reading_num |-> None,
     signal_to_background |-> signal_to_background,
     num_meas_between |-> num_meas_between]

\* FluxMIGReading.subtract_background: the corrected reading, or ValueError
subtract_background(self, background) ==
    IF self.timestamp # background.timestamp
    THEN [status |-> "ValueError", rd |-> None]
    ELSE
      LET MIG_current == FSub(self.MIG_current, background.MIG_current)
          noise    == FDiv(self.MIG_current, self.signal_to_noise)
          bg_noise == FDiv(background.MIG_current, background.signal_to_noise)
          signal_to_noise ==
              IF Truthy(self.signal_to_noise)
                 /\ Truthy(background.signal_to_noise)
              THEN FDiv(MIG_current, FHypot(noise, bg_noise))
              ELSE None
          signal_to_background ==
              FDiv(self.MIG_current, background.MIG_current)
          num_meas_between ==
              IF Truthy(background.reading_num) /\ Truthy(self.reading_num)
              THEN [t |-> "int",
                    v |-> background.reading_num.v - self.reading_num.v]
              ELSE None
      IN  [status |-> "ok",
           rd |-> CorrMIGReading(self.timestamp, self.cell,
                                 self.cell_par_vals, MIG_current,
                                 signal_to_noise, signal_to_background,
                                 num_meas_between)]

----------------------------------------------------------------------------
(* subtract_background_simple.  List indices are Python's, from 0. *)

\* the indices of the readings of one kind, in list order
RECURSIVE IndicesOf(_, _, _)
IndicesOf(rds, kind, i) ==
    IF i >= Len(rds) THEN <<>>
    ELSE (IF rds[i + 1].kind = kind THEN <<i>> ELSE <<>>)
         \o IndicesOf(rds, kind, i + 1)

\* (mutant: any background of the list is taken, also an earlier one)
IsLater_AnyBackground(j, i) == j # i

\* the inner loop's test on a background index j for the flux index i
IsLater(j, i) == j > i

\* (mutant: when no background passes the test the last one examined is
\* taken, so that no flux reading with a background in the file is skipped)
RECURSIVE ScanBackgrounds_FallsBack(_, _)
ScanBackgrounds_FallsBack(backgrounds, i) ==
    IF backgrounds = <<>> THEN -1
    ELSE IF Head(backgrounds) > i \/ Tail(backgrounds) = <<>>
    THEN Head(backgrounds)
    ELSE ScanBackgrounds_FallsBack(Tail(backgrounds), i)

\* the inner loop: the first background of the list that passes the test,
\* -1 when the loop ends without a break
RECURSIVE ScanBackgrounds(_, _)
ScanBackgrounds(backgrounds, i) ==
    IF backgrounds = <<>> THEN -1
    ELSE IF IsLater(Head(backgrounds), i) THEN Head(backgrounds)
    ELSE ScanBackgrounds(Tail(backgrounds), i)

\* the outer loop.  out: what was appended to corrected_readings, each entry
\* with the list indices of the two readings it was made from; warned: the
\* flux indices of the warnings printed.
RECURSIVE PairLoop(_, _, _, _, _)
PairLoop(rds, fluxes, backgrounds, out, warned) ==
    IF fluxes = <<>>
    THEN [status |-> "ok", out |-> out, warned |-> warned]
    ELSE
      LET i == Head(fluxes)
          j == ScanBackgrounds(backgrounds, i)
          r == subtract_background(rds[i + 1], rds[j + 1])
      IN  IF j = -1
          THEN PairLoop(rds, Tail(fluxes), backgrounds, out,
                        Append(warned, i))
          ELSE IF r.status # "ok"
          THEN [status |-> r.status, out |-> out, warned |-> warned]
          ELSE PairLoop(rds, Tail(fluxes), backgrounds,
                        Append(out, [flux |-> i, bg |-> j, rd |-> r.rd]),
                        warned)

subtract_background_simple(rds) ==
    IF \E k \in 1..Len(rds) : rds[k].kind \notin {"bg", "flux"}
    THEN [status |-> "ValueError", out |-> <<>>, warned |-> <<>>]
    ELSE PairLoop(rds, IndicesOf(rds, "flux", 0), IndicesOf(rds, "bg", 0),
                  <<>>, <<>>)

----------------------------------------------------------------------------
(* Bounds of the model *)

MaxReadings == 4      \* lines of one instrument file
MaxNum == 2           \* largest 'Reading' counter of a line
MaxTimestamp == 2     \* timestamps are 1..MaxTimestamp, in seconds
MaxOutliers == 2      \* samples of a line that differ from SampleBase
MaxMerge == 2         \* readings in each argument of merge_readings
MaxBatch == 2         \* readings given to one save_readings or write_readings

Timestamps == 1..MaxTimestamp

----------------------------------------------------------------------------
(* The parameter dict create_reading_from_XGEN_line attaches to a reading. *)
(* The key it stores the temperature under is spelled with the bytes       *)
(* C3 82 C2 B0 where cells.py has C2 B0: another key than the registry's   *)
(* temperature parameter, so the dict gets one more entry.                 *)

BuilderTempKey == "Temp (A^degC)"

line_cell_par_vals(cell, temp) ==
    Put([ i \in 1..Len(cell.pars) |-> <<cell.pars[i], None>> ],
        BuilderTempKey, temp)

----------------------------------------------------------------------------
(* Specification SpecPair: the readings of one file are collected line by  *)
(* line (get_readings_from_XGEN_file), then paired.                        *)

NotRun == [status |-> "none", out |-> <<>>, warned |-> <<>>]

\* the variables of the other specifications stay at Idle
Idle == <<>>

PairIdle   == readings = Idle /\ paired = Idle
ReduceIdle == vals = Idle /\ avg = Idle /\ built = Idle
MergeIdle  == new_readings = Idle /\ old_readings = Idle /\ merged = Idle
StoreIdle  == files = Idle /\ last = Idle

\* the reading of a line of the given type and counter: a flux line of
\* channel In1 at 950 degrees, a background line
LineReading(timestamp, type, num) ==
    IF type = "Background"
    THEN BkgrndMIGReading(timestamp, PyFloat(2500 * num),
                          IF num = 1 THEN PyFloat(20000) ELSE PosInf,
                          PyInt(num))
    ELSE FluxMIGReading(timestamp, "In1",
                        line_cell_par_vals(find_by_name("In1"),
                                           PyFloat(950 * Scale)),
                        PyFloat(12500 + 1000 * num), PyFloat(40000),
                        PyInt(num))

PairInit ==
    /\ readings = <<>>
    /\ paired = NotRun
    /\ ReduceIdle
    /\ MergeIdle
    /\ StoreIdle

\* one more non-blank line of the file, all with the file's timestamp
ReadLine ==
    /\ paired = NotRun
    /\ Len(readings) < MaxReadings
    /\ \E ts \in Timestamps, type \in {"Fluxcal", "Background"},
          num \in 0..MaxNum :
          /\ readings # <<>> => ts = readings[1].timestamp
          /\ readings' = Append(readings, LineReading(ts, type, num))
    /\ UNCHANGED <<paired, reduceVars, mergeVars, storeVars>>

SubtractBackgroundSimple ==
    /\ paired = NotRun
    /\ paired' = subtract_background_simple(readings)
    /\ UNCHANGED <<readings, reduceVars, mergeVars, storeVars>>

PairNext == ReadLine \/ SubtractBackgroundSimple

SpecPair == PairInit /\ [][PairNext]_vars

(* C1 *)
\* C1: every corrected reading subtract_background_simple emits is made
\* from a flux reading at list index i and the background reading of the
\* smallest list index j > i, whatever the other flux readings were paired
\* with; none is made from a background at an index <= the flux index.
NearestLaterBg(rds, i) ==
    CHOOSE j \in 0..(Len(rds) - 1) :
        /\ j > i
        /\ rds[j + 1].kind = "bg"
        /\ \A k \in (i + 1)..(j - 1) : rds[k + 1].kind # "bg"

HasLaterBg(rds, i) ==
    \E j \in (i + 1)..(Len(rds) - 1) : rds[j + 1].kind = "bg"

C1_NearestFollowingBackground ==
    \A n \in 1..Len(paired.out) :
        LET e == paired.out[n]
        IN  /\ readings[e.flux + 1].kind = "flux"
            /\ e.bg > e.flux
            /\ HasLaterBg(readings, e.flux)
            /\ e.bg = NearestLaterBg(readings, e.flux)
            /\ e.rd = subtract_background(readings[e.flux + 1],
                                          readings[e.bg + 1]).rd

\* two flux readings share a background although an earlier background
\* precedes them
C1_Witness ==
    /\ paired.status = "ok"
    /\ \E m, n \in 1..Len(paired.out) :
          /\ m # n
          /\ paired.out[m].bg = paired.out[n].bg
          /\ \E k \in 0..(paired.out[m].flux - 1) : readings[k + 1].kind = "bg"

----------------------------------------------------------------------------
(* create_reading_from_XGEN_line.  A line is its parsed fields: type,     *)
(* port, num, temp, and the state variables avg and vals.  Samples are     *)
(* multiples of 0.020, so that the mean of 20 of them is exact.            *)

NumSamples == 24
NumTrimRounds == 2
ToleranceExp == 12       \* the tolerance is 10^-ToleranceExp

SeqSum(s) == IF s = <<>> THEN 0 ELSE
    LET F[i \in 1..Len(s)] == IF i = 1 THEN s[1] ELSE F[i - 1] + s[i]
    IN  F[Len(s)]

SeqMax(s) == CHOOSE x \in Range(s) : \A y \in Range(s) : y <= x
SeqMin(s) == CHOOSE x \in Range(s) : \A y \in Range(s) : y >= x

\* list.remove(x): drops the first element equal to x
ListRemove(s, x) ==
    LET k == CHOOSE i \in 1..Len(s) :
                 s[i] = x /\ \A j \in 1..(i - 1) : s[j] # x
    IN  SubSeq(s, 1, k - 1) \o SubSeq(s, k + 1, Len(s))

\* (mutant: the second removal takes the maximum again, not the minimum)
TrimOnce_MaxTwice(s) ==
    LET t == ListRemove(s, SeqMax(s))
    IN  ListRemove(t, SeqMax(t))

\* one pass of the loop: remove(max(...)) then remove(min(...))
TrimOnce(s) ==
    LET t == ListRemove(s, SeqMax(s))
    IN  ListRemove(t, SeqMin(t))

RECURSIVE TrimRounds(_, _)
TrimRounds(s, n) == IF n = 0 THEN s ELSE TrimRounds(TrimOnce(s), n - 1)

\* np.average and np.std (population) of a list of thousandths
Average(s) == SeqSum(s) \div Len(s)

Std(s) ==
    LET m == Average(s)
        sq == [ i \in 1..Len(s) |-> (s[i] - m) * (s[i] - m) ]
    IN  Isqrt(SeqSum(sq) \div Len(s))

\* a * 10^-ToleranceExp, rounded down, for a >= 0 (in two steps: 10^12 does
\* not fit the checker's integers)
TimesTolerance(a) ==
    (a \div 10^(ToleranceExp \div 2)) \div 10^(ToleranceExp - ToleranceExp \div 2)

\* the test (MIG_current - avg)/avg > 1e-12, for avg >= 0.  With avg = 0
\* numpy's quotient is inf (true) or, for 0/0, nan (false).  For integers
\* d and a > 0, d/a > 10^-12 iff d > floor(a * 10^-12).
AverageMismatch(MIG, reported) ==
    IF reported = 0 THEN MIG > 0
    ELSE MIG - reported > TimesTolerance(reported)

NotBuilt == [status |-> "none", rd |-> None, vals_reduced |-> <<>>,
             MIG_current |-> None]

create_reading_from_XGEN_line(type, port, num, temp, reported, samples, timestamp) ==
    IF ~\E i \in 1..Len(cells) : cells[i].port = port
    THEN [NotBuilt EXCEPT !.status = "ValueError: no cell"]
    ELSE
      LET cell == find_by_port(port)
          cell_par_vals == line_cell_par_vals(cell, temp)
          vals_reduced == TrimRounds(samples, NumTrimRounds)
          MIG_current == PyFloat(Average(vals_reduced))
          signal_to_noise ==
              FDiv(MIG_current, PyFloat(Std(vals_reduced)))
          rd == IF type = "Background"
                THEN BkgrndMIGReading(timestamp, MIG_current,
                                      signal_to_noise, PyInt(num))
                ELSE FluxMIGReading(timestamp, cell.name, cell_par_vals,
                                    MIG_current, signal_to_noise, PyInt(num))
      IN  IF AverageMismatch(MIG_current.v, reported)
          THEN [status |-> "ValueError: average", rd |-> None,
                vals_reduced |-> vals_reduced, MIG_current |-> MIG_current]
          ELSE [status |-> "ok", rd |-> rd, vals_reduced |-> vals_reduced,
                MIG_current |-> MIG_current]

----------------------------------------------------------------------------
(* Specification SpecReduce: a line of 24 samples, of which at most        *)
(* MaxOutliers differ from SampleBase, is given to the reading builder     *)
(* with a reported average.                                                *)

SampleBase == 25 * 500
SampleStep == 4 * 5
Deviations == {-SampleStep, SampleStep}
ReportedAverages == {SampleBase - 1, SampleBase, SampleBase + 1}

RECURSIVE SampleSeqs(_, _)
SampleSeqs(n, k) ==
    IF n = 0 THEN {<<>>}
    ELSE { Append(s, SampleBase) : s \in SampleSeqs(n - 1, k) }
         \cup (IF k = 0 THEN {}
               ELSE { Append(s, SampleBase + d) :
                        s \in SampleSeqs(n - 1, k - 1), d \in Deviations })

ReduceInit ==
    /\ vals \in SampleSeqs(NumSamples, MaxOutliers)
    /\ avg = Idle
    /\ built = NotBuilt
    /\ PairIdle
    /\ MergeIdle
    /\ StoreIdle

CreateReading ==
    /\ built = NotBuilt
    /\ \E reported \in ReportedAverages, type \in {"Fluxcal", "Background"} :
          /\ avg' = reported
          /\ built' = create_reading_from_XGEN_line(
                          type, 2, 0, PyFloat(950 * Scale), reported, vals, 1)
    /\ UNCHANGED <<vals, pairVars, mergeVars, storeVars>>

ReduceNext == CreateReading

SpecReduce == ReduceInit /\ [][ReduceNext]_vars

----------------------------------------------------------------------------
(* The text of a store file *)

EmptyText      == [k |-> "empty", v |-> 0, dot0 |-> FALSE]
NoneText       == [k |-> "None", v |-> 0, dot0 |-> FALSE]
NumText(v, d)  == [k |-> "num", v |-> v, dot0 |-> d]
WordText(w)    == [k |-> w, v |-> 0, dot0 |-> FALSE]
TimeText(t)    == [k |-> "ts", v |-> t, dot0 |-> FALSE]

\* the power of ten a thousandths count is rounded to by six significant
\* digits
RECURSIVE SigUnit(_, _)
SigUnit(a, unit) ==
    IF a \div unit < 10^6 THEN unit ELSE SigUnit(a, unit * 10)

\* format(x, 'g') of a number: six significant digits, no trailing ".0"
\* (ties are rounded up: the values of the model avoid them)
FormatG(x) ==
    IF ~IsFinite(x) THEN WordText(x.t)
    ELSE LET unit == SigUnit(Abs(x.v), 1)
             r    == ((Abs(x.v) + unit \div 2) \div unit) * unit
         IN  NumText(IF x.v < 0 THEN -r ELSE r, FALSE)

\* str(x): "None", an int without a point, a float with one ("3.0")
FormatStr(x) ==
    CASE x.t = "none"  -> NoneText
      [] x.t = "int"   -> NumText(x.v, FALSE)
      [] x.t = "float" -> NumText(x.v, x.v % Scale = 0)
      [] OTHER         -> WordText(x.t)

\* float(s), or ValueError
IsFloatText(s) == s.k \in {"num", "inf", "-inf", "nan"}

ParseFloat(s) == IF s.k = "num" THEN PyFloat(s.v) ELSE [t |-> s.k, v |-> 0]

\* read_float raises exactly when the text is non-empty and no number
read_float_ok(s) == s.k = "empty" \/ IsFloatText(s)

read_float(s) == IF s.k = "empty" THEN None ELSE ParseFloat(s)

generate_header(cellname) ==
    <<"Timestamp">> \o find_by_name(cellname).pars
    \o <<"MIG (nA)", "Signal-to-noise", "Signal-to-background",
         "Num meas between sig and BG">>

\* the test print_line makes on a parameter value before it writes it
WritesValue(val) == Truthy(val)

print_line(reading) ==
    <<TimeText(reading.timestamp)>>
    \o [ i \in 1..Len(reading.cell_par_vals) |->
           IF WritesValue(reading.cell_par_vals[i][2])
           THEN FormatG(reading.cell_par_vals[i][2])
           ELSE EmptyText ]
    \o << FormatG(reading.MIG_current), FormatStr(reading.signal_to_noise),
          FormatG(reading.signal_to_background),
          FormatStr(reading.num_meas_between) >>

----------------------------------------------------------------------------
(* Partitions *)

RECURSIVE CellnamesLoop(_, _)
CellnamesLoop(rds, cellnames) ==
    IF rds = <<>> THEN cellnames
    ELSE CellnamesLoop(Tail(rds),
                       IF Head(rds).cell \in Range(cellnames) THEN cellnames
                       ELSE Append(cellnames, Head(rds).cell))

get_cellnames_from_readings(rds) == CellnamesLoop(rds, <<>>)

\* the key a reading is filed under: its timestamp or its cell's name
KeyOfReading(r, by) == IF by = "timestamp" THEN r.timestamp ELSE r.cell

\* a dict key -> list of readings, keys in order of first appearance
RECURSIVE GroupLoop(_, _, _)
GroupLoop(rds, by, dict) ==
    IF rds = <<>> THEN dict
    ELSE GroupLoop(Tail(rds), by,
                   IF HasKey(dict, KeyOfReading(Head(rds), by))
                   THEN Put(dict, KeyOfReading(Head(rds), by),
                            Append(Get(dict, KeyOfReading(Head(rds), by)),
                                   Head(rds)))
                   ELSE Append(dict, <<KeyOfReading(Head(rds), by),
                                       <<Head(rds)>> >>))

split_readings_by_timestamp(rds) == GroupLoop(rds, "timestamp", <<>>)

split_readings_by_cellname(rds) == GroupLoop(rds, "cellname", <<>>)

\* the second level of split_readings
SplitEachByTimestamp(by_cell) ==
    [ i \in 1..Len(by_cell) |->
        <<by_cell[i][1], split_readings_by_timestamp(by_cell[i][2])>> ]

split_readings(rds) == SplitEachByTimestamp(split_readings_by_cellname(rds))

unsplit_readings(split) ==
    Concat([ i \in 1..Len(split) |->
               Concat([ j \in 1..Len(split[i][2]) |-> split[i][2][j][2] ]) ])

\* (mutant: a timestamp group of the new data is adopted only when
\* overwriting)
Adopts_OnlyOverwrite(in_old, overwrite_old) == overwrite_old

\* (mutant: the new readings are added to the old list of the timestamp)
Adopted_Extend(old_list, new_list) == old_list \o new_list

\* (mutant: a conflict is a shared timestamp, whatever the channel)
SameChannel_Any(cell, other) == TRUE

\* merge_readings adopts a timestamp group of the new data when ...
Adopts(in_old, overwrite_old) == ~in_old \/ overwrite_old

\* ... and the adopted list then stands for the timestamp
Adopted(old_list, new_list) == new_list

\* the inner loop of merge_readings over the timestamps of one channel
RECURSIVE MergeTimestamps(_, _, _)
MergeTimestamps(merged_ts, new_ts, overwrite_old) ==
    IF new_ts = <<>> THEN merged_ts
    ELSE LET timestamp == Head(new_ts)[1]
             reading_list == Head(new_ts)[2]
             in_old == HasKey(merged_ts, timestamp)
         IN  MergeTimestamps(
                 IF Adopts(in_old, overwrite_old)
                 THEN Put(merged_ts, timestamp,
                          Adopted(IF in_old THEN Get(merged_ts, timestamp)
                                  ELSE <<>>, reading_list))
                 ELSE merged_ts,
                 Tail(new_ts), overwrite_old)

RECURSIVE MergeCells(_, _, _)
MergeCells(merged_split, new_split, overwrite_old) ==
    IF new_split = <<>> THEN merged_split
    ELSE LET cell == Head(new_split)[1]
         IN  MergeCells(
                 IF ~HasKey(merged_split, cell)
                 THEN Put(merged_split, cell, Head(new_split)[2])
                 ELSE Put(merged_split, cell,
                          MergeTimestamps(Get(merged_split, cell),
                                          Head(new_split)[2], overwrite_old)),
                 Tail(new_split), overwrite_old)

merge_readings(new, old, overwrite_old) ==
    unsplit_readings(MergeCells(split_readings(old), split_readings(new),
                                overwrite_old))

\* the test on a channel of readings1 against a channel of readings2
SameChannel(cell, other) == cell = other

\* the loops of check_timestamp_conflicts over the two partitions
SplitsConflict(readings1_split, readings2_split) ==
    \E i \in 1..Len(readings1_split), k \in 1..Len(readings2_split) :
        /\ SameChannel(readings1_split[i][1], readings2_split[k][1])
        /\ \E j \in 1..Len(readings1_split[i][2]) :
               HasKey(readings2_split[k][2], readings1_split[i][2][j][1])

check_timestamp_conflicts(readings1, readings2) ==
    SplitsConflict(split_readings(readings1), split_readings(readings2))

----------------------------------------------------------------------------
(* Specification SpecMerge: merge_readings and check_timestamp_conflicts   *)
(* on two lists of corrected readings of the channels In1 and Al2.  The    *)
(* n-th reading of a list carries the current n (new list) or 100 + n (old *)
(* list), so that every reading is told from every other.                  *)

StoreCells == {"In1", "Al2"}

\* a corrected reading with the registry's parameters, all set
PlainReading(cell, timestamp, current) ==
    CorrMIGReading(timestamp, cell,
                   [ i \in 1..Len(find_by_name(cell).pars) |->
                       <<find_by_name(cell).pars[i], PyFloat(950 * Scale)>> ],
                   PyFloat(current), PyFloat(40 * Scale), PyFloat(5 * Scale),
                   PyInt(3))

RECURSIVE KeyLists(_)
KeyLists(n) ==
    IF n = 0 THEN {<<>>}
    ELSE KeyLists(n - 1)
         \cup { Append(s, <<c, t>>) :
                  s \in { x \in KeyLists(n - 1) : Len(x) = n - 1 },
                  c \in StoreCells, t \in Timestamps }

ReadingsOfKeys(keys, offset) ==
    [ i \in 1..Len(keys) |->
        PlainReading(keys[i][1], keys[i][2], (offset + i) * Scale) ]

NotMerged == [op |-> "none", overwrite_old |-> FALSE, out |-> <<>>,
              conflict |-> FALSE]

MergeInit ==
    /\ \E nk \in KeyLists(MaxMerge), ok \in KeyLists(MaxMerge) :
          /\ new_readings = ReadingsOfKeys(nk, 0)
          /\ old_readings = ReadingsOfKeys(ok, 100)
    /\ merged = NotMerged
    /\ PairIdle
    /\ ReduceIdle
    /\ StoreIdle

MergeReadings ==
    /\ merged = NotMerged
    /\ \E overwrite_old \in BOOLEAN :
          merged' = [op |-> "merge", overwrite_old |-> overwrite_old,
                     out |-> merge_readings(new_readings, old_readings,
                                            overwrite_old),
                     conflict |-> FALSE]
    /\ UNCHANGED <<new_readings, old_readings, pairVars, reduceVars, storeVars>>

CheckTimestampConflicts ==
    /\ merged = NotMerged
    /\ merged' = [op |-> "check", overwrite_old |-> FALSE, out |-> <<>>,
                  conflict |-> check_timestamp_conflicts(new_readings,
                                                         old_readings)]
    /\ UNCHANGED <<new_readings, old_readings, pairVars, reduceVars, storeVars>>

MergeNext == MergeReadings \/ CheckTimestampConflicts

SpecMerge == MergeInit /\ [][MergeNext]_vars

\* the readings of a list under one (channel, timestamp) key, in list order
OfKey(rds, c, t) ==
    SelectSeq(rds, LAMBDA r : r.cell = c /\ r.timestamp = t)

StoreKeys == StoreCells \X Timestamps

KeysOf(rds) == { <<rds[i].cell, rds[i].timestamp>> : i \in 1..Len(rds) }

(* C3 *)
\* C3: for a key present in both the new and the old readings, the merged
\* result holds exactly the old readings of the key when overwrite_old is
\* false and exactly the new ones when it is true; a key present only in
\* the old readings keeps its old readings in both cases.
C3_WholeGroupReplaced ==
    merged.op = "merge" =>
        \A key \in KeysOf(old_readings) :
            OfKey(merged.out, key[1], key[2]) =
                IF key \in KeysOf(new_readings) /\ merged.overwrite_old
                THEN OfKey(new_readings, key[1], key[2])
                ELSE OfKey(old_readings, key[1], key[2])

\* an overwriting merge of a key that has two old and two new readings
C3_Witness ==
    /\ merged.op = "merge"
    /\ merged.overwrite_old
    /\ \E key \in KeysOf(old_readings) \cap KeysOf(new_readings) :
          /\ Len(OfKey(old_readings, key[1], key[2])) = 2
          /\ Len(OfKey(new_readings, key[1], key[2])) = 2
          /\ OfKey(merged.out, key[1], key[2]) = new_readings

(* C4 *)
\* C4: merging without overwrite two lists whose key sets are disjoint
\* gives every old and every new reading exactly once and nothing else.
C4_DisjointUnion ==
    (merged.op = "merge" /\ ~merged.overwrite_old
     /\ KeysOf(new_readings) \cap KeysOf(old_readings) = {})
        => SameMultiset(merged.out, old_readings \o new_readings)

\* the new data has a channel the old data lacks, and a channel of the old
\* data at another timestamp
C4_Witness ==
    /\ merged.op = "merge" /\ ~merged.overwrite_old
    /\ KeysOf(new_readings) \cap KeysOf(old_readings) = {}
    /\ Len(merged.out) = Len(old_readings) + 2
    /\ \E i, j \in 1..Len(new_readings) :
          /\ \A k \in 1..Len(old_readings) :
                 old_readings[k].cell # new_readings[i].cell
          /\ \E k \in 1..Len(old_readings) :
                 old_readings[k].cell = new_readings[j].cell

(* C5 *)
\* C5: check_timestamp_conflicts is true exactly when some (channel,
\* timestamp) key has a reading in both lists.
C5_ConflictIffSharedKey ==
    merged.op = "check" =>
        (merged.conflict <=>
            KeysOf(new_readings) \cap KeysOf(old_readings) # {})

\* no conflict although the lists share a channel, and share a timestamp
C5_Witness ==
    /\ merged.op = "check"
    /\ ~merged.conflict
    /\ \E a \in KeysOf(new_readings), b \in KeysOf(old_readings) : a[1] = b[1]
    /\ \E a \in KeysOf(new_readings), b \in KeysOf(old_readings) : a[2] = b[2]

----------------------------------------------------------------------------
(* The store folder: one file per channel, files[c] for the file c.txt. *)

NoFile == [exists |-> FALSE, header |-> <<>>, rows |-> <<>>]

\* zip(valnames, vals): as long as the shorter of the two
Zip(valnames, row) ==
    [ i \in 1..(IF Len(valnames) < Len(row) THEN Len(valnames) ELSE Len(row))
        |-> <<valnames[i], row[i]>> ]

\* no statement of the loop body raises: every column has a field
\* (KeyError), the timestamp parses and every other field is empty or a
\* number (ValueError)
RowLoads(valdict, valnames) ==
    /\ \A i \in 1..Len(valnames) : HasKey(valdict, valnames[i])
    /\ Get(valdict, "Timestamp").k = "ts"
    /\ \A i \in 2..Len(valnames) : read_float_ok(Get(valdict, valnames[i]))

LoadRow(valdict, cell) ==
    CorrMIGReading(
        Get(valdict, "Timestamp").v, cell.name,
        [ i \in 1..Len(cell.pars) |->
            <<cell.pars[i], read_float(Get(valdict, cell.pars[i]))>> ],
        read_float(Get(valdict, "MIG (nA)")),
        read_float(Get(valdict, "Signal-to-noise")),
        read_float(Get(valdict, "Signal-to-background")),
        read_float(Get(valdict, "Num meas between sig and BG")))

\* the body rows of one file: every row loads, and the readings they give
FileLoads(file) ==
    \A i \in 1..Len(file.rows) :
        RowLoads(Zip(file.header, file.rows[i]), file.header)

FileReadings(file, cell) ==
    [ i \in 1..Len(file.rows) |-> LoadRow(Zip(file.header, file.rows[i]), cell) ]

\* (mutant: at an absent file the readings read so far are returned)
RECURSIVE LoadLoop_KeepsRead(_, _, _)
LoadLoop_KeepsRead(cellnames, fs, acc) ==
    IF cellnames = <<>> THEN [status |-> "ok", readings |-> acc]
    ELSE IF ~fs[Head(cellnames)].exists
    THEN [status |-> "ok", readings |-> acc]
    ELSE IF fs[Head(cellnames)].header # generate_header(Head(cellnames))
    THEN [status |-> "ValueError: header", readings |-> <<>>]
    ELSE IF ~FileLoads(fs[Head(cellnames)])
    THEN [status |-> "ValueError: row", readings |-> <<>>]
    ELSE LoadLoop_KeepsRead(Tail(cellnames), fs,
                            acc \o FileReadings(fs[Head(cellnames)],
                                                find_by_name(Head(cellnames))))

RECURSIVE LoadLoop(_, _, _)
LoadLoop(cellnames, fs, acc) ==
    IF cellnames = <<>> THEN [status |-> "ok", readings |-> acc]
    ELSE IF ~fs[Head(cellnames)].exists
    THEN [status |-> "ok", readings |-> <<>>]
    ELSE IF fs[Head(cellnames)].header # generate_header(Head(cellnames))
    THEN [status |-> "ValueError: header", readings |-> <<>>]
    ELSE IF ~FileLoads(fs[Head(cellnames)])
    THEN [status |-> "ValueError: row", readings |-> <<>>]
    ELSE LoadLoop(Tail(cellnames), fs,
                  acc \o FileReadings(fs[Head(cellnames)],
                                      find_by_name(Head(cellnames))))

load_readings(cellnames, fs) == LoadLoop(cellnames, fs, <<>>)

\* the rows of the timestamp groups, in the given order of timestamps
GroupRows(by_timestamp, timestamps) ==
    Concat([ i \in 1..Len(timestamps) |->
               [ j \in 1..Len(Get(by_timestamp, timestamps[i])) |->
                   print_line(Get(by_timestamp, timestamps[i])[j]) ] ])

\* (mutant: the timestamp groups are written in the order of the partition)
FileText_Unsorted(cellname, by_timestamp) ==
    [exists |-> TRUE, header |-> generate_header(cellname),
     rows |-> GroupRows(by_timestamp, Keys(by_timestamp))]

\* the text of one channel's file: the header, then the rows of the
\* timestamp groups in ascending order of timestamp
FileText(cellname, by_timestamp) ==
    [exists |-> TRUE, header |-> generate_header(cellname),
     rows |-> GroupRows(by_timestamp, SortedSeq(Keys(by_timestamp)))]

\* write_readings on the partition of its readings
WriteSplit(readings_split, fs, delete_old_data_first) ==
    IF ~delete_old_data_first
       /\ \E i \in 1..Len(readings_split) : fs[readings_split[i][1]].exists
    THEN [status |-> "ValueError: exists", files |-> fs]
    ELSE [status |-> "ok",
          files |-> [ c \in DOMAIN fs |->
                        IF HasKey(readings_split, c)
                        THEN FileText(c, Get(readings_split, c))
                        ELSE fs[c] ]]

write_readings(rds, fs, delete_old_data_first) ==
    WriteSplit(split_readings(rds), fs, delete_old_data_first)

\* save_readings after the overwrite decision: merge and write
SaveDecided(rds, fs, old_rds, asked, overwrite) ==
    [status |-> "ok",
     files |-> write_readings(merge_readings(rds, old_rds, overwrite),
                              fs, TRUE).files,
     asked |-> asked, overwrite |-> overwrite]

\* save_readings after load_readings returned or raised
SaveLoaded(rds, fs, old, conflict, prompt_overwrite, default_overwrite, answer) ==
    IF old.status # "ok"
    THEN [status |-> old.status, files |-> fs, asked |-> FALSE,
          overwrite |-> FALSE]
    ELSE SaveDecided(rds, fs, old.readings, prompt_overwrite /\ conflict,
                     IF prompt_overwrite /\ conflict THEN answer
                     ELSE default_overwrite)

\* answer: what ask_yes_no returns if it is called
save_readings(rds, fs, prompt_overwrite, default_overwrite, answer) ==
    LET old == load_readings(get_cellnames_from_readings(rds), fs)
    IN  SaveLoaded(rds, fs, old,
                   prompt_overwrite /\ check_timestamp_conflicts(rds, old.readings),
                   prompt_overwrite, default_overwrite, answer)

----------------------------------------------------------------------------
(* Corrected readings as the pipeline hands them to save_readings:         *)
(* subtract_background on the readings of two lines, then                  *)
(* prompt_for_missing_par_vals with the user's values.                     *)

\* the user's answer put on every parameter that was unset
FillMissing(cell_par_vals, val) ==
    [ i \in 1..Len(cell_par_vals) |->
        IF cell_par_vals[i][2] = None THEN <<cell_par_vals[i][1], val>>
        ELSE cell_par_vals[i] ]

\* the corrected reading of a flux line with counter num and the background
\* line after it
PipelineReading(cell, timestamp, num, userval) ==
    LET flux == FluxMIGReading(timestamp, cell,
                    line_cell_par_vals(find_by_name(cell), PyFloat(950 * Scale)),
                    PyFloat(12500), PyFloat(40 * Scale), PyInt(num))
        bg == BkgrndMIGReading(timestamp, PyFloat(2500), PyFloat(20 * Scale),
                               PyInt(num + 1))
        rd == subtract_background(flux, bg).rd
    IN  [rd EXCEPT !.cell_par_vals = FillMissing(rd.cell_par_vals, userval)]

RECURSIVE ListsOf(_, _)
ListsOf(S, n) ==
    IF n = 0 THEN {<<>>}
    ELSE ListsOf(S, n - 1)
         \cup { Append(s, x) : s \in { y \in ListsOf(S, n - 1) : Len(y) = n - 1 },
                               x \in S }

----------------------------------------------------------------------------
(* Specification SpecStore: a fresh folder and a sequence of save_readings *)
(* calls on batches of pipeline readings.                                  *)

\* one reading per channel and timestamp, of a flux line with counter 1
PipelineReadings ==
    { PipelineReading(c, t, 1, PyFloat(200 * Scale)) :
        c \in StoreCells, t \in Timestamps }

Batches == ListsOf(PipelineReadings, MaxBatch) \ {<<>>}

NoCall == [op |-> "none", status |-> "none", asked |-> FALSE,
           overwrite |-> FALSE]

StoreInit ==
    /\ files = [ c \in StoreCells |-> NoFile ]
    /\ last = NoCall
    /\ PairIdle
    /\ ReduceIdle
    /\ MergeIdle

\* the folder and the outcome after a store call
Returned(op, r) ==
    /\ files' = r.files
    /\ last' = [op |-> op, status |-> r.status, asked |-> r.asked,
                overwrite |-> r.overwrite]

SaveReadings ==
    /\ \E batch \in Batches, answer \in BOOLEAN :
          Returned("save", save_readings(batch, files, TRUE, FALSE, answer))
    /\ UNCHANGED <<pairVars, reduceVars, mergeVars>>

StoreNext == SaveReadings

SpecStore == StoreInit /\ [][StoreNext]_vars

\* two corrected readings are equal field for field
SameReading(a, b) ==
    /\ a.timestamp = b.timestamp
    /\ a.cell = b.cell
    /\ Keys(a.cell_par_vals) = Keys(b.cell_par_vals)
    /\ \A i \in 1..Len(a.cell_par_vals) :
          PyEq(a.cell_par_vals[i][2], b.cell_par_vals[i][2])
    /\ PyEq(a.MIG_current, b.MIG_current)
    /\ PyEq(a.signal_to_noise, b.signal_to_noise)
    /\ PyEq(a.signal_to_background, b.signal_to_background)
    /\ PyEq(a.num_meas_between, b.num_meas_between)

\* the readings load_readings finds in a channel's file under timestamp t
GroupOf(file, cellname, t) ==
    SelectSeq(FileReadings(file, find_by_name(cellname)),
              LAMBDA r : r.timestamp = t)

SameReadings(a, b) ==
    /\ Len(a) = Len(b)
    /\ \A i \in 1..Len(a) : SameReading(a[i], b[i])

(* C2 *)
\* C2 (as claimed): a save in which overwrite is not granted leaves every
\* (channel, timestamp) group that was in a channel's file in that file,
\* with the same readings, also when only some of the batch's channels
\* already have a file.
C2_AppendOnly ==
    [][ (last'.op = "save" /\ ~last'.overwrite) =>
            \A c \in StoreCells, t \in Timestamps :
                (files[c].exists /\ FileLoads(files[c])
                 /\ GroupOf(files[c], c, t) # <<>>) =>
                    /\ files'[c].exists
                    /\ FileLoads(files'[c])
                    /\ SameReadings(GroupOf(files'[c], c, t),
                                    GroupOf(files[c], c, t)) ]_vars

----------------------------------------------------------------------------
(* Specification SpecResave: in a fresh folder, save_readings is called    *)
(* twice with the same batch of pipeline readings; the second call's       *)
(* overwrite question, if asked, is answered no.                           *)

\* corrected readings of flux lines with counter 0 or 1
ResaveReadings ==
    { PipelineReading(c, t, num, PyFloat(200 * Scale)) :
        c \in StoreCells, t \in Timestamps, num \in 0..1 }

ResaveBatches == ListsOf(ResaveReadings, MaxBatch) \ {<<>>}

ResaveInit ==
    /\ files = [ c \in StoreCells |-> NoFile ]
    /\ last = [op |-> "none", status |-> "none", batch |-> <<>>]
    /\ PairIdle
    /\ ReduceIdle
    /\ MergeIdle

SavedBatch(op, batch, r) ==
    /\ files' = r.files
    /\ last' = [op |-> op, status |-> r.status, batch |-> batch]

SaveFirst ==
    /\ last.op = "none"
    /\ \E batch \in ResaveBatches :
          SavedBatch("first", batch,
                     save_readings(batch, files, TRUE, FALSE, FALSE))
    /\ UNCHANGED <<pairVars, reduceVars, mergeVars>>

SaveSecond ==
    /\ last.op = "first"
    /\ SavedBatch("second", last.batch,
                  save_readings(last.batch, files, TRUE, FALSE, FALSE))
    /\ UNCHANGED <<pairVars, reduceVars, mergeVars>>

ResaveNext == SaveFirst \/ SaveSecond

SpecResave == ResaveInit /\ [][ResaveNext]_vars

(* C6 *)
\* C6 (as claimed): saving the same pipeline readings a second time without
\* overwrite completes, as the first save did, and leaves every channel
\* file identical to its content after the first save.
C6_SaveIdempotent ==
    [][ last'.op = "second" =>
            /\ last.status = "ok"
            /\ last'.status = "ok"
            /\ files' = files ]_vars

----------------------------------------------------------------------------
(* Specification SpecRoundTrip: write_readings into a fresh folder, then   *)
(* load_readings of the channels written.  The readings carry exactly the  *)
(* registry's parameters of their channel.                                 *)

\* a reading whose temperature, other parameters, current, signal-to-noise
\* and count are given
StoreReading(cell, timestamp, temp, other, current, snr, num) ==
    CorrMIGReading(timestamp, cell,
                   [ i \in 1..Len(find_by_name(cell).pars) |->
                       <<find_by_name(cell).pars[i],
                         IF i = 1 THEN temp ELSE other>> ],
                   current, snr, PyFloat(5 * Scale), num)

ReadingShapes ==
    { \* every value set
      <<PyFloat(950 * Scale), PyFloat(200 * Scale), PyFloat(12500),
        PyFloat(40 * Scale), PyInt(3)>>,
      \* a temperature of zero
      <<PyFloat(0), PyFloat(200 * Scale), PyFloat(12500),
        PyFloat(40 * Scale), PyInt(3)>>,
      \* parameters not filled in
      <<PyFloat(950 * Scale), None, PyFloat(12500),
        PyFloat(40 * Scale), PyInt(3)>>,
      \* no signal-to-noise
      <<PyFloat(950 * Scale), PyFloat(200 * Scale), PyFloat(12500),
        None, PyInt(3)>>,
      \* no count of measurements between
      <<PyFloat(950 * Scale), PyFloat(200 * Scale), PyFloat(12500),
        PyFloat(40 * Scale), None>>,
      \* a current of seven significant digits, 1234.567
      <<PyFloat(950 * Scale), PyFloat(200 * Scale), PyFloat(1234567),
        PyFloat(40 * Scale), PyInt(3)>> }

RoundTripReadings ==
    { StoreReading(c, t, sh[1], sh[2], sh[3], sh[4], sh[5]) :
        c \in StoreCells, t \in Timestamps, sh \in ReadingShapes }

RoundTripBatches == ListsOf(RoundTripReadings, MaxBatch) \ {<<>>}

RoundTripInit ==
    /\ files = [ c \in StoreCells |-> NoFile ]
    /\ last = [op |-> "none", status |-> "none", batch |-> <<>>,
               loaded |-> <<>>]
    /\ PairIdle
    /\ ReduceIdle
    /\ MergeIdle

Written(batch, r) ==
    /\ files' = r.files
    /\ last' = [op |-> "write", status |-> r.status, batch |-> batch,
                loaded |-> <<>>]

WriteReadings ==
    /\ last.op = "none"
    /\ \E batch \in RoundTripBatches :
          Written(batch, write_readings(batch, files, FALSE))
    /\ UNCHANGED <<pairVars, reduceVars, mergeVars>>

Loaded(r) ==
    last' = [last EXCEPT !.op = "load", !.status = r.status,
                         !.loaded = r.readings]

LoadReadings ==
    /\ last.op = "write" /\ last.status = "ok"
    /\ Loaded(load_readings(get_cellnames_from_readings(last.batch), files))
    /\ UNCHANGED <<files, pairVars, reduceVars, mergeVars>>

RoundTripNext == WriteReadings \/ LoadReadings

SpecRoundTrip == RoundTripInit /\ [][RoundTripNext]_vars

Occurrences(rds, r) ==
    Cardinality({ i \in 1..Len(rds) : SameReading(rds[i], r) })

(* C7 *)
\* C7 (as claimed): loading what write_readings wrote succeeds and yields
\* the written readings, equal field for field, unset and zero values
\* included.
C7_RoundTrip ==
    last.op = "load" =>
        /\ last.status = "ok"
        /\ Len(last.loaded) = Len(last.batch)
        /\ \A i \in 1..Len(last.batch) :
              Occurrences(last.loaded, last.batch[i])
                  = Occurrences(last.batch, last.batch[i])

\* a written row renders the reading r with an empty field exactly where a
\* value of r is unset, and a number where it is set
RendersUnsetAsEmpty(r, row) ==
    LET n == Len(r.cell_par_vals)
        Faithful(val, text) ==
            IF val = None THEN text.k = "empty" ELSE IsFloatText(text)
    IN  /\ Len(row) = n + 5
        /\ row[1] = TimeText(r.timestamp)
        /\ \A i \in 1..n : Faithful(r.cell_par_vals[i][2], row[1 + i])
        /\ Faithful(r.signal_to_noise, row[n + 3])
        /\ Faithful(r.num_meas_between, row[n + 5])

(* C8 *)
\* C8 (as claimed): in every body row written, a parameter value, the
\* signal-to-noise and the number of measurements between are rendered as
\* the empty string if and only if they are unset; a set value, zero
\* included, is rendered as a number.
C8_UnsetIffEmpty ==
    (last.op = "write" /\ last.status = "ok") =>
        \A i \in 1..Len(last.batch) :
            \E k \in 1..Len(files[last.batch[i].cell].rows) :
                RendersUnsetAsEmpty(last.batch[i],
                                    files[last.batch[i].cell].rows[k])

(* C9 *)
\* C9 (as claimed): whenever the trimmed mean of the samples differs from
\* the reported average by more than the relative tolerance, in either
\* direction, the builder fails and returns no reading.
C9_RejectsEitherDirection ==
    (built.status # "none"
     /\ Abs(built.MIG_current.v - avg) > TimesTolerance(avg))
        => (built.status = "ValueError: average" /\ built.rd = None)

(* C10 *)
\* C10: the reduction leaves exactly 20 values, the input multiset minus
\* its two largest and two smallest elements, so that the reduced average
\* is the mean of the sorted samples without the first two and last two,
\* whatever the order of the samples.
C10_TrimmedMultiset ==
    built.status # "none" =>
        LET middle == SubSeq(SortedSeq(vals), 3, Len(vals) - 2)
        IN  /\ Len(built.vals_reduced) = 20
            /\ SameMultiset(built.vals_reduced, middle)
            /\ built.MIG_current.v * 20 = SeqSum(middle)

\* a line whose largest value occurs twice and whose smallest value is tied
C10_Witness ==
    /\ built.status # "none"
    /\ Count(vals, SeqMax(vals)) = 2
    /\ Count(vals, SeqMin(vals)) > 2
    /\ built.MIG_current.v = SampleBase

----------------------------------------------------------------------------
(* Claims on the pairing and on the sequence index, under SpecPair *)

\* the flux indices of a file that have a background at a later index
FluxesWithLaterBg(rds) ==
    SelectSeq(IndicesOf(rds, "flux", 0), LAMBDA i : HasLaterBg(rds, i))

(* C11 *)
\* C11: subtract_background_simple does not raise on a flux reading that
\* has no later background; it emits exactly one corrected reading for each
\* flux reading that has one, in the order of the flux readings, and none
\* for the others.
C11_SkipsWithoutBackground ==
    paired.status # "none" =>
        /\ paired.status = "ok"
        /\ [ n \in 1..Len(paired.out) |-> paired.out[n].flux ]
               = FluxesWithLaterBg(readings)
        /\ Len(paired.out) + Len(paired.warned)
               = Len(IndicesOf(readings, "flux", 0))

\* a flux reading is paired and two later ones are skipped, one after the
\* other, each with a background earlier in the file
C11_Witness ==
    /\ paired.status = "ok"
    /\ Len(paired.out) = 1
    /\ Len(paired.warned) = 2
    /\ paired.warned[1] > paired.out[1].bg

(* C12 *)
\* C12 (as claimed): the sequence index stored on the reading of the k-th
\* non-blank line of a file is k - 1, whatever the line's 'Reading' counter.
C12_IndexIsPosition ==
    \A k \in 1..Len(readings) : readings[k].reading_num = PyInt(k - 1)

(* C13 *)
\* C13 (as claimed): a corrected reading's num_meas_between is the
\* background's sequence index minus the flux reading's whenever both
\* readings carry one, an index of 0 included, and is null otherwise.
C13_IndexDifference ==
    \A n \in 1..Len(paired.out) :
        LET flux == readings[paired.out[n].flux + 1]
            bg   == readings[paired.out[n].bg + 1]
        IN  paired.out[n].rd.num_meas_between =
                IF flux.reading_num # None /\ bg.reading_num # None
                THEN [t |-> "int", v |-> bg.reading_num.v - flux.reading_num.v]
                ELSE None

----------------------------------------------------------------------------
(* Claims on the reading the builder returns, under SpecReduce *)

(* C14 *)
\* C14 (as claimed): the parameter dict of a reading built from a Fluxcal
\* line has exactly the registered parameters of its channel as keys, in
\* registry order; the temperature parameter holds the line's temperature
\* and every other parameter is unset.
C14_RegistryParameters ==
    (built.status = "ok" /\ built.rd.kind = "flux") =>
        /\ Keys(built.rd.cell_par_vals) = find_by_name(built.rd.cell).pars
        /\ \A i \in 1..Len(built.rd.cell_par_vals) :
              built.rd.cell_par_vals[i][2] =
                  IF built.rd.cell_par_vals[i][1] = TempPar
                  THEN PyFloat(950 * Scale) ELSE None

(* C15 *)
\* C15 (as claimed): the reading the builder returns has a null
\* signal-to-noise when the 20 reduced samples are all equal, and the
\* reduced average divided by the noise otherwise.
C15_NullWhenNoiseless ==
    built.status = "ok" =>
        built.rd.signal_to_noise =
            IF Std(built.vals_reduced) = 0 THEN None
            ELSE FDiv(built.MIG_current, PyFloat(Std(built.vals_reduced)))

----------------------------------------------------------------------------
(* Specification SpecFile: get_readings_from_XGEN_file step by step.  The  *)
(* call record `last` holds the position in the function (pc), the fields  *)
(* of the file name, how many times cells.find_by_port was called for the  *)
(* file name (lookups), how many lines were handed to the builder (lines), *)
(* the port of the last such line and the way the call ended.              *)

\* ports a file name or a line may carry: the manual port 0, the port of
\* In1, and a port no cell of the registry has
FilePorts == {0, 2, 3}

\* a file name: whether filename_regex matches it, the port and whether the
\* digits of the timestamp are a date strptime accepts
FileNames ==
    [matched : BOOLEAN, port : FilePorts, date_ok : BOOLEAN,
     timestamp : Timestamps]

\* the 24 samples of every line of the file, and their reduced average
LineSamples ==
    [ i \in 1..NumSamples |->
        IF i % 2 = 1 THEN SampleBase + SampleStep ELSE SampleBase - SampleStep ]

\* (mutant: no port is taken for the manual one)
IsManualPort_Never(port) == FALSE

\* parse_flux_filename's test for the manual measurement
IsManualPort(port) == port = 0

FileInit ==
    /\ \E fname \in FileNames :
          last = [pc |-> "call", fname |-> fname, lookups |-> 0, lines |-> 0,
                  line_port |-> -1, status |-> "none"]
    /\ readings = <<>>
    /\ paired = NotRun
    /\ files = Idle
    /\ ReduceIdle
    /\ MergeIdle

\* the call moves to position pc, or ends there with the given status
Goes(pc, status) == last' = [last EXCEPT !.pc = pc, !.status = status]

\* parse_flux_filename up to the port test: the match and the timestamp
ParseFluxFilename ==
    /\ last.pc = "call"
    /\ IF ~last.fname.matched THEN Goes("exit", "SystemExit: filename")
       ELSE IF ~last.fname.date_ok THEN Goes("raised", "ValueError: date")
       ELSE Goes("port", "none")
    /\ UNCHANGED <<readings, paired, files, reduceVars, mergeVars>>

\* the port test: show_error_and_exit ends the program
RejectManual ==
    /\ last.pc = "port"
    /\ IsManualPort(last.fname.port)
    /\ Goes("exit", "SystemExit: manual")
    /\ UNCHANGED <<readings, paired, files, reduceVars, mergeVars>>

\* cells.find_by_port(port) for the file name
FindCellOfFile ==
    /\ last.pc = "port"
    /\ ~IsManualPort(last.fname.port)
    /\ last' = [last EXCEPT
                  !.lookups = @ + 1,
                  !.pc = IF \E i \in 1..Len(cells) :
                               cells[i].port = last.fname.port
                         THEN "open" ELSE "raised",
                  !.status = IF \E i \in 1..Len(cells) :
                                   cells[i].port = last.fname.port
                             THEN "none" ELSE "ValueError: no cell"]
    /\ UNCHANGED <<readings, paired, files, reduceVars, mergeVars>>

\* the builder's outcome r on one more line, of the given port
LineBuilt(port, r) ==
    /\ readings' = IF r.status = "ok" THEN Append(readings, r.rd) ELSE readings
    /\ last' = [last EXCEPT !.lines = @ + 1, !.line_port = port,
                            !.pc = IF r.status = "ok" THEN "open" ELSE "raised",
                            !.status = IF r.status = "ok" THEN "none"
                                       ELSE r.status]

\* one more non-blank line of the file is read and given to the builder
ReadFileLine ==
    /\ last.pc = "open"
    /\ last.lines < MaxReadings
    /\ \E type \in {"Fluxcal", "Background"}, num \in 0..MaxNum,
          port \in FilePorts :
          LineBuilt(port,
                    create_reading_from_XGEN_line(
                        type, port, num, PyFloat(950 * Scale), SampleBase,
                        LineSamples, last.fname.timestamp))
    /\ UNCHANGED <<paired, files, reduceVars, mergeVars>>

\* the end of the file: the readings are returned
ReturnReadings ==
    /\ last.pc = "open"
    /\ Goes("returned", "ok")
    /\ UNCHANGED <<readings, paired, files, reduceVars, mergeVars>>

FileNext ==
    \/ ParseFluxFilename
    \/ RejectManual
    \/ FindCellOfFile
    \/ ReadFileLine
    \/ ReturnReadings

SpecFile == FileInit /\ [][FileNext]_vars

(* C16 *)
\* C16: for a file name that carries port 0 the registry is never looked
\* up, no line of the file is read or parsed, the call never gets past the
\* port test and no reading is returned.
C16_ManualFileRejectedFirst ==
    last.fname.port = 0 =>
        /\ last.lookups = 0
        /\ last.lines = 0
        /\ readings = <<>>
        /\ last.pc \in {"call", "port", "exit", "raised"}
        /\ last.pc = "raised" => ~last.fname.date_ok

\* a well-formed file name with port 0 was rejected at the port test
C16_Witness ==
    /\ last.fname.port = 0
    /\ last.fname.matched /\ last.fname.date_ok
    /\ last.pc = "exit"
    /\ last.status = "SystemExit: manual"

(* C17 *)
\* C17 (as claimed): a line whose port is 0 is rejected by the builder with
\* the manual-channel error, never with the error of a registry lookup that
\* found no cell.
C17_ManualLineNotUnknown ==
    (last.pc = "raised" /\ last.line_port = 0) =>
        last.status # "ValueError: no cell"

----------------------------------------------------------------------------
(* Specification SpecLoad: write_readings puts a batch of readings into a  *)
(* fresh folder, then load_readings is called for a list of channel names. *)

\* readings with the registry's parameters, all values set
LoadableReadings ==
    { PlainReading(c, t, 10 * Scale) : c \in StoreCells, t \in Timestamps }

LoadBatches == ListsOf(LoadableReadings, MaxBatch)

\* the lists of channel names load_readings is asked for
Requests == ListsOf(StoreCells, MaxBatch)

LoadInit ==
    /\ files = [ c \in StoreCells |-> NoFile ]
    /\ last = [op |-> "none", status |-> "none", batch |-> <<>>,
               request |-> <<>>, loaded |-> <<>>]
    /\ PairIdle
    /\ ReduceIdle
    /\ MergeIdle

Prepared(batch, r) ==
    /\ files' = r.files
    /\ last' = [last EXCEPT !.op = "write", !.status = r.status,
                            !.batch = batch]

\* the folder's content: what write_readings makes of a batch
PrepareFolder ==
    /\ last.op = "none"
    /\ \E batch \in LoadBatches :
          Prepared(batch, write_readings(batch, files, FALSE))
    /\ UNCHANGED <<pairVars, reduceVars, mergeVars>>

Requested(request, r) ==
    last' = [last EXCEPT !.op = "load", !.status = r.status,
                         !.request = request, !.loaded = r.readings]

LoadRequested ==
    /\ last.op = "write"
    /\ \E request \in Requests : Requested(request, load_readings(request, files))
    /\ UNCHANGED <<files, pairVars, reduceVars, mergeVars>>

LoadNext == PrepareFolder \/ LoadRequested

SpecLoad == LoadInit /\ [][LoadNext]_vars

\* the readings of channel c in a batch, by ascending timestamp and, within
\* a timestamp, in the order of the batch: what the file of c holds
StoredOf(batch, c) ==
    Concat([ t \in 1..MaxTimestamp |-> OfKey(batch, c, t) ])

(* C18 *)
\* C18: load_readings returns the empty list as soon as the file of one
\* requested channel is absent, wherever the channel stands in the request
\* and whatever was read before; when every requested file exists it
\* returns the stored readings of the requested channels in request order.
C18_EmptyOnAbsentFile ==
    last.op = "load" =>
        /\ last.status = "ok"
        /\ IF \E i \in 1..Len(last.request) : ~files[last.request[i]].exists
           THEN last.loaded = <<>>
           ELSE SameReadings(last.loaded,
                             Concat([ i \in 1..Len(last.request) |->
                                        StoredOf(last.batch, last.request[i]) ]))

\* the first requested channel has a file with rows, the second has none
C18_Witness ==
    /\ last.op = "load"
    /\ Len(last.request) = 2
    /\ files[last.request[1]].exists
    /\ files[last.request[1]].rows # <<>>
    /\ ~files[last.request[2]].exists
    /\ last.loaded = <<>>

----------------------------------------------------------------------------
(* Specification SpecHeader: a folder in which a channel's file is absent, *)
(* as write_readings makes it, or stale (its header line is not the one    *)
(* generate_header gives for the channel now); one load_readings or        *)
(* save_readings call on it.                                               *)

\* the file write_readings makes of one reading of the channel
GoodFile(c) ==
    write_readings(<<PlainReading(c, 1, 10 * Scale)>>,
                   [ d \in StoreCells |-> NoFile ], FALSE).files[c]

\* the same file with the temperature column under another spelling
StaleFile(c) ==
    [GoodFile(c) EXCEPT !.header[2] = BuilderTempKey]

FolderFiles(c) == {NoFile, GoodFile(c), StaleFile(c)}

HeaderInit ==
    /\ files \in [StoreCells -> UNION { FolderFiles(c) : c \in StoreCells }]
    /\ \A c \in StoreCells : files[c] \in FolderFiles(c)
    /\ last = [op |-> "none", status |-> "none", involved |-> <<>>,
               before |-> <<>>]
    /\ PairIdle
    /\ ReduceIdle
    /\ MergeIdle

\* the outcome of a call that involved the given channels
Called(op, involved, status, fs) ==
    /\ files' = fs
    /\ last' = [op |-> op, status |-> status, involved |-> involved,
                before |-> files]

LoadFrom ==
    /\ last.op = "none"
    /\ \E request \in Requests \ {<<>>} :
          Called("load", request, load_readings(request, files).status, files)
    /\ UNCHANGED <<pairVars, reduceVars, mergeVars>>

SavedOnto(batch, r) ==
    Called("save", get_cellnames_from_readings(batch), r.status, r.files)

SaveOnto ==
    /\ last.op = "none"
    /\ \E batch \in LoadBatches \ {<<>>}, answer \in BOOLEAN :
          SavedOnto(batch, save_readings(batch, files, TRUE, FALSE, answer))
    /\ UNCHANGED <<pairVars, reduceVars, mergeVars>>

HeaderNext == LoadFrom \/ SaveOnto

SpecHeader == HeaderInit /\ [][HeaderNext]_vars

\* the file of channel c exists with another first line than the header
\* generated for c
HeaderDiffers(fs, c) ==
    fs[c].exists /\ fs[c].header # generate_header(c)

(* C19 *)
\* C19 (as claimed): when the file of an involved channel has a header
\* other than the generated one, load_readings fails, and save_readings
\* fails and leaves every channel file as it was.
C19_HeaderMismatchFails ==
    (last.op # "none"
     /\ \E i \in 1..Len(last.involved) :
            HeaderDiffers(last.before, last.involved[i]))
        => (last.status = "ValueError: header" /\ files = last.before)

----------------------------------------------------------------------------
(* Specification SpecWrite: one save_readings call on a folder in which    *)
(* each channel's file is absent or as write_readings made it; the write   *)
(* of the call's fail_at-th channel file fails (0: no write fails).        *)

\* a file opened for writing into which nothing was written
Truncated == [exists |-> TRUE, header |-> <<>>, rows |-> <<>>]

\* what the file of a channel can hold after its write failed: the old
\* file (open failed), nothing (truncated by open), or the header and
\* the rows written before the failure
FailedFiles(old_file, new_file) ==
    {old_file, Truncated}
    \cup { [new_file EXCEPT !.rows = SubSeq(new_file.rows, 1, n)] :
             n \in 0..Len(new_file.rows) }

\* (mutant: every file is opened before the first is written, so a failure
\* leaves the files of the later channels empty)
RECURSIVE WriteLoop_OpensAll(_, _, _, _, _)
WriteLoop_OpensAll(readings_split, fs, i, fail_at, left) ==
    IF i > Len(readings_split) THEN [status |-> "ok", files |-> fs]
    ELSE IF i = fail_at
    THEN [status |-> "OSError",
          files |-> [ c \in DOMAIN fs |->
                        IF c = readings_split[i][1] THEN left
                        ELSE IF \E j \in (i + 1)..Len(readings_split) :
                                    readings_split[j][1] = c
                        THEN Truncated ELSE fs[c] ]]
    ELSE WriteLoop_OpensAll(readings_split,
                   [fs EXCEPT ![readings_split[i][1]] =
                        FileText(readings_split[i][1], readings_split[i][2])],
                   i + 1, fail_at, left)

\* the second loop of write_readings from its i-th channel on; the write of
\* the fail_at-th channel fails and leaves the file `left`
RECURSIVE WriteLoop(_, _, _, _, _)
WriteLoop(readings_split, fs, i, fail_at, left) ==
    IF i > Len(readings_split) THEN [status |-> "ok", files |-> fs]
    ELSE IF i = fail_at
    THEN [status |-> "OSError",
          files |-> [fs EXCEPT ![readings_split[i][1]] = left]]
    ELSE WriteLoop(readings_split,
                   [fs EXCEPT ![readings_split[i][1]] =
                        FileText(readings_split[i][1], readings_split[i][2])],
                   i + 1, fail_at, left)

\* the list save_readings hands to write_readings (every file of the
\* folder loads)
MergedForSave(rds, old_rds, answer) ==
    merge_readings(rds, old_rds,
                   check_timestamp_conflicts(rds, old_rds) /\ answer)

SaveBatches ==
    ListsOf({ PlainReading(c, t, 20 * Scale) :
                c \in StoreCells, t \in Timestamps }, MaxBatch) \ {<<>>}

WriteInit ==
    /\ files \in [StoreCells -> UNION { {NoFile, GoodFile(c)} : c \in StoreCells }]
    /\ \A c \in StoreCells : files[c] \in {NoFile, GoodFile(c)}
    /\ last = [op |-> "none", status |-> "none", order |-> <<>>,
               fail_at |-> 0, before |-> <<>>, complete |-> <<>>]
    /\ PairIdle
    /\ ReduceIdle
    /\ MergeIdle

\* the outcome r of the write of readings_split
Wrote(readings_split, fail_at, complete, r) ==
    /\ files' = r.files
    /\ last' = [op |-> "save", status |-> r.status,
                order |-> Keys(readings_split), fail_at |-> fail_at,
                before |-> files, complete |-> complete]

\* the write of the partition, failing at fail_at if that channel exists
WriteFailing(readings_split, fail_at, complete) ==
    IF fail_at \in 1..Len(readings_split)
    THEN \E left \in FailedFiles(files[readings_split[fail_at][1]],
                                 complete[readings_split[fail_at][1]]) :
             Wrote(readings_split, fail_at, complete,
                   WriteLoop(readings_split, files, 1, fail_at, left))
    ELSE Wrote(readings_split, 0, complete,
               WriteLoop(readings_split, files, 1, 0, NoFile))

SaveWithFailure ==
    /\ last.op = "none"
    /\ \E batch \in SaveBatches, answer \in BOOLEAN, fail_at \in 0..MaxBatch :
          WriteFailing(
              split_readings(
                  MergedForSave(batch,
                      load_readings(get_cellnames_from_readings(batch),
                                    files).readings, answer)),
              fail_at,
              save_readings(batch, files, TRUE, FALSE, answer).files)
    /\ UNCHANGED <<pairVars, reduceVars, mergeVars>>

WriteNext == SaveWithFailure

SpecWrite == WriteInit /\ [][WriteNext]_vars

(* C20 *)
\* C20: when the write of the k-th channel file of a save call fails, the
\* files of the channels written before it hold the whole content the call
\* was to give them, and the files of the channels after it are as they
\* were before the call.
C20_EarlierCommittedLaterUntouched ==
    (last.op = "save" /\ last.status = "OSError") =>
        /\ \A i \in 1..(last.fail_at - 1) :
              files[last.order[i]] = last.complete[last.order[i]]
        /\ \A i \in (last.fail_at + 1)..Len(last.order) :
              files[last.order[i]] = last.before[last.order[i]]
        /\ \A c \in StoreCells \ Range(last.order) : files[c] = last.before[c]

\* the second of two writes failed after the first replaced an existing
\* file by other content
C20_Witness ==
    /\ last.op = "save" /\ last.status = "OSError"
    /\ last.fail_at = 2
    /\ last.before[last.order[1]].exists
    /\ files[last.order[1]] # last.before[last.order[1]]
    /\ files[last.order[1]] = last.complete[last.order[1]]

----------------------------------------------------------------------------
(* Specification SpecOrder: one save_readings call on a folder in which    *)
(* each channel's file is absent or holds two readings under one           *)
(* timestamp; the readings of the batch are told apart by their current.   *)

\* the file write_readings makes of two readings of the channel that share
\* a timestamp
PairFile(c) ==
    write_readings(ReadingsOfKeys(<< <<c, 2>>, <<c, 2>> >>, 100),
                   [ d \in StoreCells |-> NoFile ], FALSE).files[c]

OrderBatches == { ReadingsOfKeys(k, 0) : k \in KeyLists(MaxBatch) \ {<<>>} }

OrderInit ==
    /\ files \in [StoreCells -> UNION { {NoFile, PairFile(c)} : c \in StoreCells }]
    /\ \A c \in StoreCells : files[c] \in {NoFile, PairFile(c)}
    /\ last = [op |-> "none", status |-> "none", batch |-> <<>>,
               before |-> <<>>, asked |-> FALSE, overwrite |-> FALSE]
    /\ PairIdle
    /\ ReduceIdle
    /\ MergeIdle

\* the outcome r of save_readings(batch)
SavedOrdered(batch, r) ==
    /\ files' = r.files
    /\ last' = [op |-> "save", status |-> r.status, batch |-> batch,
                before |-> files, asked |-> r.asked,
                overwrite |-> r.overwrite]

SaveOrdered ==
    /\ last.op = "none"
    /\ \E batch \in OrderBatches, answer \in BOOLEAN :
          SavedOrdered(batch, save_readings(batch, files, TRUE, FALSE, answer))
    /\ UNCHANGED <<pairVars, reduceVars, mergeVars>>

OrderNext == SaveOrdered

SpecOrder == OrderInit /\ [][OrderNext]_vars

\* the timestamp a row of a file is written under
RowTimestamp(row) == row[1].v

\* the rows of a file under timestamp t, in file order
RowsAt(file, t) == SelectSeq(file.rows, LAMBDA row : RowTimestamp(row) = t)

\* the rows print_line makes of a list of readings
LinesOf(rds) == [ i \in 1..Len(rds) |-> print_line(rds[i]) ]

(* C21 *)
\* C21: after a successful save_readings call, every channel file the call
\* wrote lists its rows in non-decreasing order of timestamp, holds the
\* rows of each timestamp as one contiguous run, and holds under each
\* timestamp the rows of the list that was adopted for it (that of the
\* batch or that of the old file), in the order of that list.
C21_WrittenFilesSortedGrouped ==
    (last.op = "save" /\ last.status = "ok") =>
        \A c \in Range(get_cellnames_from_readings(last.batch)) :
            /\ \A i \in 1..Len(files[c].rows), j \in 1..Len(files[c].rows) :
                  i < j => RowTimestamp(files[c].rows[i])
                             <= RowTimestamp(files[c].rows[j])
            /\ \A i \in 1..Len(files[c].rows), j \in 1..Len(files[c].rows),
                  k \in 1..Len(files[c].rows) :
                  (i < k /\ k < j
                   /\ RowTimestamp(files[c].rows[i])
                        = RowTimestamp(files[c].rows[j]))
                  => RowTimestamp(files[c].rows[k])
                       = RowTimestamp(files[c].rows[i])
            /\ \A t \in Timestamps :
                  \/ RowsAt(files[c], t) = LinesOf(OfKey(last.batch, c, t))
                  \/ /\ last.before[c].exists
                     /\ RowsAt(files[c], t)
                          = LinesOf(GroupOf(last.before[c], c, t))

\* a save put a new, earlier timestamp into a file that held two readings
\* under a later one: the file lists the new reading first and the two old
\* readings after it, in their old order
C21_Witness ==
    /\ last.op = "save" /\ last.status = "ok"
    /\ \E c \in Range(get_cellnames_from_readings(last.batch)) :
          /\ last.before[c] = PairFile(c)
          /\ Len(files[c].rows) = 3
          /\ RowTimestamp(files[c].rows[1]) = 1
          /\ SubSeq(files[c].rows, 2, 3) = LinesOf(GroupOf(PairFile(c), c, 2))
          /\ files[c].rows[2] # files[c].rows[3]

----------------------------------------------------------------------------
(* Specification SpecAsk: save_readings statement by statement, on a       *)
(* folder in which each channel's file is absent, as write_readings makes  *)
(* it, or stale. last.pc is the position in the call; last.asks counts the *)
(* calls of ask_yes_no, last.written the channel files written.            *)

NotSaving ==
    [pc |-> "idle", batch |-> <<>>, prompt_overwrite |-> FALSE,
     default_overwrite |-> FALSE, before |-> <<>>, loaded |-> FALSE,
     old |-> <<>>, asks |-> 0, overwrite |-> FALSE, merged |-> <<>>,
     written |-> 0]

AskInit ==
    /\ files \in [StoreCells -> UNION { FolderFiles(c) : c \in StoreCells }]
    /\ \A c \in StoreCells : files[c] \in FolderFiles(c)
    /\ last = NotSaving
    /\ PairIdle
    /\ ReduceIdle
    /\ MergeIdle

\* (mutant: the user is asked whenever prompting is enabled)
AsksUser_Always(prompt_overwrite, conflict) == prompt_overwrite

\* ask_yes_no is called: prompting is enabled and the check found a conflict
AsksUser(prompt_overwrite, conflict) == prompt_overwrite /\ conflict

\* the call and its arguments
EnterSave ==
    /\ last.pc = "idle"
    /\ \E batch \in SaveBatches, prompt_overwrite \in BOOLEAN,
          default_overwrite \in BOOLEAN :
          last' = [NotSaving EXCEPT !.pc = "load", !.batch = batch,
                                    !.prompt_overwrite = prompt_overwrite,
                                    !.default_overwrite = default_overwrite,
                                    !.before = files]
    /\ UNCHANGED <<files, pairVars, reduceVars, mergeVars>>

\* r: what load_readings gives; overwrite = default_overwrite
OldLoaded(r) ==
    IF r.status # "ok"
    THEN last' = [last EXCEPT !.pc = "raised"]
    ELSE last' = [last EXCEPT !.pc = "check", !.loaded = TRUE,
                              !.old = r.readings,
                              !.overwrite = last.default_overwrite]

LoadOld ==
    /\ last.pc = "load"
    /\ OldLoaded(load_readings(get_cellnames_from_readings(last.batch), files))
    /\ UNCHANGED <<files, pairVars, reduceVars, mergeVars>>

CheckConflict ==
    /\ last.pc = "check"
    /\ last' = [last EXCEPT !.pc =
                  IF AsksUser(last.prompt_overwrite,
                              check_timestamp_conflicts(last.batch, last.old))
                  THEN "ask" ELSE "merge"]
    /\ UNCHANGED <<files, pairVars, reduceVars, mergeVars>>

AskYesNo ==
    /\ last.pc = "ask"
    /\ \E answer \in BOOLEAN :
          last' = [last EXCEPT !.pc = "merge", !.asks = last.asks + 1,
                               !.overwrite = answer]
    /\ UNCHANGED <<files, pairVars, reduceVars, mergeVars>>

\* merge_readings, and the partition write_readings makes of its result
MergeForWrite ==
    /\ last.pc = "merge"
    /\ last' = [last EXCEPT !.pc = "write",
                  !.merged = split_readings(
                      merge_readings(last.batch, last.old, last.overwrite))]
    /\ UNCHANGED <<files, pairVars, reduceVars, mergeVars>>

\* one iteration of the second loop of write_readings
WriteFile ==
    /\ last.pc = "write"
    /\ last.written < Len(last.merged)
    /\ files' = [files EXCEPT ![last.merged[last.written + 1][1]] =
                    FileText(last.merged[last.written + 1][1],
                             last.merged[last.written + 1][2])]
    /\ last' = [last EXCEPT !.written = last.written + 1]
    /\ UNCHANGED <<pairVars, reduceVars, mergeVars>>

ReturnSave ==
    /\ last.pc = "write"
    /\ last.written = Len(last.merged)
    /\ last' = [last EXCEPT !.pc = "done"]
    /\ UNCHANGED <<files, pairVars, reduceVars, mergeVars>>

AskNext ==
    \/ EnterSave
    \/ LoadOld
    \/ CheckConflict
    \/ AskYesNo
    \/ MergeForWrite
    \/ WriteFile
    \/ ReturnSave

SpecAsk == AskInit /\ [][AskNext]_vars

(* C22 *)
\* C22: in a save_readings call ask_yes_no is called at most once, only
\* with prompting enabled, only after load_readings returned and only if
\* the batch shares a (channel, timestamp) key with the loaded readings;
\* without such a key it is not called and the merge is made with
\* default_overwrite; no file of the folder changes before the merge, so
\* the answer is there before any file is written, and once a file is
\* written no further question is asked.
C22_AsksOnceAfterLoadBeforeWrite ==
    /\ [](/\ last.asks <= 1
          /\ last.asks = 1 =>
                /\ last.loaded
                /\ last.prompt_overwrite
                /\ check_timestamp_conflicts(last.batch, last.old)
          /\ (last.pc \in {"write", "done"}
              /\ ~check_timestamp_conflicts(last.batch, last.old)) =>
                /\ last.asks = 0
                /\ last.merged = split_readings(
                       merge_readings(last.batch, last.old,
                                      last.default_overwrite))
          /\ last.pc \in {"load", "check", "ask", "merge"} =>
                files = last.before /\ last.written = 0)
    /\ [][ /\ last'.asks # last.asks =>
                last.loaded /\ last.written = 0 /\ files = last.before
           /\ last'.written # last.written => last'.asks = last.asks
           /\ files' # files => last.pc = "write" ]_vars

\* a save with prompting returned after it asked once, was answered yes
\* and wrote a file that differs from the one it found
C22_Witness ==
    /\ last.pc = "done"
    /\ last.prompt_overwrite
    /\ last.asks = 1
    /\ last.overwrite
    /\ last.written >= 1
    /\ files # last.before

----------------------------------------------------------------------------
(* Specification SpecPrompt: prompt_for_missing_par_vals on a list of      *)
(* corrected readings of one channel and one timestamp, each registered    *)
(* parameter of a reading unset or set; get_cell_pars_from_user answers    *)
(* nothing (the dialog was closed) or, for each parameter asked, one value *)
(* or None per reading.  readings is the list handed over, paired the      *)
(* call with the list as the step leaves it.                               *)

\* the loop over one reading's cell_par_vals.items()
RECURSIVE MissingOfReading(_, _)
MissingOfReading(cell_par_vals, missing_pars) ==
    IF cell_par_vals = <<>> THEN missing_pars
    ELSE MissingOfReading(Tail(cell_par_vals),
             IF Head(cell_par_vals)[1] \notin Range(missing_pars)
                /\ Head(cell_par_vals)[2] = None
             THEN Append(missing_pars, Head(cell_par_vals)[1])
             ELSE missing_pars)

\* the loop over the readings
RECURSIVE MissingLoop(_, _)
MissingLoop(rds, missing_pars) ==
    IF rds = <<>> THEN missing_pars
    ELSE MissingLoop(Tail(rds),
                     MissingOfReading(Head(rds).cell_par_vals, missing_pars))

\* for key in vals: the i-th reading gets vals[key][i], if zip reaches it
RECURSIVE AssignKeys(_, _, _)
AssignKeys(cell_par_vals, user_vals, i) ==
    IF user_vals = <<>> THEN cell_par_vals
    ELSE AssignKeys(IF i <= Len(Head(user_vals)[2])
                    THEN Put(cell_par_vals, Head(user_vals)[1],
                             Head(user_vals)[2][i])
                    ELSE cell_par_vals,
                    Tail(user_vals), i)

\* what get_cell_pars_from_user returned: None, or a dict of lists
NoAnswer == [given |-> FALSE, dict |-> <<>>]

\* the test `if vals:`
AnswerTruthy(answer) == answer.given /\ answer.dict # <<>>

\* answer: what get_cell_pars_from_user returns if it is called
prompt_for_missing_par_vals(rds, answer) ==
    IF MissingLoop(rds, <<>>) = <<>> \/ ~AnswerTruthy(answer) THEN rds
    ELSE [ i \in 1..Len(rds) |->
             [rds[i] EXCEPT !.cell_par_vals =
                 AssignKeys(rds[i].cell_par_vals, answer.dict, i)] ]

\* a value typed into the dialog, or a field left blank
UserVals == {None, PyFloat(7 * Scale)}

\* CellParsDialog.on_submit: a list of num_rd values for every name asked
Answers(pars, num_rd) ==
    { [given |-> TRUE,
       dict |-> [ k \in 1..Len(pars) |-> <<pars[k], lists[k]>> ]] :
        lists \in [1..Len(pars) -> [1..num_rd -> UserVals]] }

\* a corrected reading of the pipeline in which the registered parameters
\* of set_pars have a value
PromptReading(cell, set_pars) ==
    [PipelineReading(cell, 1, 1, None) EXCEPT !.cell_par_vals =
        [ i \in 1..Len(@) |->
            IF @[i][1] \in set_pars THEN <<@[i][1], PyFloat(950 * Scale)>>
            ELSE @[i] ]]

PromptLists ==
    UNION { ListsOf({ PromptReading(c, S) :
                        S \in SUBSET Range(find_by_name(c).pars) }, MaxBatch)
            : c \in StoreCells }

NotPrompted == [op |-> "none", asked |-> <<>>, answer |-> NoAnswer,
                out |-> <<>>]

PromptInit ==
    /\ readings \in PromptLists
    /\ paired = NotPrompted
    /\ ReduceIdle
    /\ MergeIdle
    /\ StoreIdle

\* the step with the answer of the user
Prompted(missing_pars, answer) ==
    paired' = [op |-> "prompt", asked |-> missing_pars, answer |-> answer,
               out |-> prompt_for_missing_par_vals(readings, answer)]

PromptForMissingParVals ==
    /\ paired.op = "none"
    /\ IF MissingLoop(readings, <<>>) = <<>>
       THEN Prompted(<<>>, NoAnswer)
       ELSE \E answer \in {NoAnswer}
                 \cup Answers(MissingLoop(readings, <<>>), Len(readings)) :
               Prompted(MissingLoop(readings, <<>>), answer)
    /\ UNCHANGED <<readings, reduceVars, mergeVars, storeVars>>

PromptNext == PromptForMissingParVals

SpecPrompt == PromptInit /\ [][PromptNext]_vars

(* C23 *)
\* C23 (as claimed): after prompt_for_missing_par_vals every reading has
\* the parameter keys it had before, and every parameter value that was
\* set on a reading before the step is the same after it, whatever the
\* user answered.
C23_OnlyFillsUnset ==
    paired.op = "prompt" =>
        /\ Len(paired.out) = Len(readings)
        /\ \A i \in 1..Len(readings) :
              /\ Keys(paired.out[i].cell_par_vals)
                   = Keys(readings[i].cell_par_vals)
              /\ \A j \in 1..Len(readings[i].cell_par_vals) :
                    readings[i].cell_par_vals[j][2] # None =>
                        paired.out[i].cell_par_vals[j]
                          = readings[i].cell_par_vals[j]

====
